---- MODULE Spec2Model ----
(***************************************************************************)
(* State-machine model of the GANZA AI WebSocket proxy, in its two         *)
(* variants:                                                               *)
(*   "managed"  react-demo-app/server.py            (bearer token, Vertex) *)
(*   "direct"   react-demo-app/server_gemini_api.py (API key in the URL)   *)
(*                                                                         *)
(* Conventions.                                                            *)
(*  - A Python str is a sequence of tokens.  The tokens that the string    *)
(*    tests of the code look at are kept apart:                            *)
(*        "/"  the slash          "M"  the word  models                    *)
(*        "L"  the prefix  gemini-live-                                    *)
(*    so "models/" is <<"M","/">> and "/models/" is <<"/","M","/">>.       *)
(*    Every other token is an opaque piece of text.                        *)
(*  - A JSON value is a tagged record: JNull, JNum(n), JStr(s), JObj(f).   *)
(*  - A Python exception raised by an expression is the value Raise.       *)
(*  - asyncio runs one coroutine at a time: the code between two awaits    *)
(*    is one action.                                                       *)
(***************************************************************************)
EXTENDS Integers, Sequences, FiniteSets, TLC

VARIABLES
    variant,         \* which server file runs: "managed" or "direct"
    GEMINI_API_KEY,  \* server_gemini_api.py line 30, a str
    DEFAULT_MODEL,   \* server_gemini_api.py line 31, a str
    probe,           \* a client message taken through the setup transformation
    GOOGLE_APPLICATION_CREDENTIALS,  \* server.py lines 39-40: a path, or None
    os_environ,      \* os.environ.get('GOOGLE_APPLICATION_CREDENTIALS'), of the process
    pc,              \* per session: where handle_websocket_client / create_proxy stands
    client,          \* per session: the client connection
    upstream,        \* per session: the upstream connection
    connect,         \* per session: the arguments websockets.connect was called with
    tokenCalls,      \* per session: calls of generate_access_token
    bearer_token,    \* per session: the handler's local bearer_token
    handshake,       \* per session: the first message, as received
    cIn, uIn,        \* per session: frames sent by the peer, not yet received by the proxy
    cSent, uSent,    \* per session: number of frames the peer has sent
    task,            \* per session and direction: the proxy_task
    recvd,           \* per session and direction: the frames the loop has received
    wrote            \* per session and direction: the frames written to the destination

vars == <<variant, GEMINI_API_KEY, DEFAULT_MODEL, probe, GOOGLE_APPLICATION_CREDENTIALS,
          os_environ, pc, client, upstream, connect, tokenCalls,
          bearer_token, handshake, cIn, uIn, cSent, uSent, task, recvd, wrote>>

(***************************************************************************)
(* JSON values and the Python operations the code applies to them          *)
(***************************************************************************)
JNull == [t |-> "null"]
JNum(n) == [t |-> "num", n |-> n]
JStr(s) == [t |-> "str", s |-> s]
JObj(f) == [t |-> "obj", f |-> f]
Raise == [t |-> "raise"]

\* no such key (in a dict, in os.environ)
Absent == [t |-> "absent"]

NoKeys == [k \in {} |-> JNull]

\* bool(v): the truth value Python gives a JSON value ("not x" is ~Truthy(x)).
Truthy(v) ==
    CASE v.t = "null" -> FALSE
      [] v.t = "num" -> v.n # 0
      [] v.t = "str" -> v.s # <<>>
      [] v.t = "obj" -> DOMAIN v.f # {}

\* s.startswith(p)
StartsWith(s, p) ==
    /\ Len(s) >= Len(p)
    /\ SubSeq(s, 1, Len(p)) = p

\* positions at which p occurs in s
Occurrences(s, p) ==
    {i \in 1..(Len(s) - Len(p) + 1) : SubSeq(s, i, i + Len(p) - 1) = p}

\* p in s, for two strs
SubstringOf(p, s) == Occurrences(s, p) # {}

\* s.split(p)[-1]: split cuts at the first occurrence of p and goes on in
\* the text after it, so occurrences that overlap an earlier one do not count
RECURSIVE AfterLast(_, _)
AfterLast(s, p) ==
    IF Occurrences(s, p) = {} THEN s
    ELSE LET first == CHOOSE i \in Occurrences(s, p) : \A j \in Occurrences(s, p) : i <= j
         IN AfterLast(SubSeq(s, first + Len(p), Len(s)), p)

\* "key in v": "yes", "no", or "raise" (TypeError: argument is not iterable)
KeyIn(key, v) ==
    CASE v.t = "obj" -> IF key \in DOMAIN v.f THEN "yes" ELSE "no"
      [] v.t = "str" -> IF SubstringOf(<<key>>, v.s) THEN "yes" ELSE "no"
      [] OTHER -> "raise"

\* del d[key] / d[key] = x on a dict
DelKey(f, key) == [k \in DOMAIN f \ {key} |-> f[k]]
SetKey(f, key, x) == [k \in DOMAIN f \cup {key} |-> IF k = key THEN x ELSE f[k]]

(***************************************************************************)
(* server_gemini_api.py: model name mapping                                *)
(***************************************************************************)
ModelsPrefix == <<"M", "/">>
ModelsInfix == <<"/", "M", "/">>
LivePrefix == <<"L">>

\* the two table keys that name managed-variant models, their common value,
\* and the keys that map to themselves
NativeAudio == <<"L", "2.5-flash-native-audio">>
NativeAudio0925 == <<"L", "2.5-flash-preview-native-audio-09-2025">>
Preview1225 == <<"gemini-2.5-flash-native-audio-preview-12-2025">>
Flash20Exp == <<"gemini-2.0-flash-exp">>
Pro15 == <<"gemini-1.5-pro">>
Flash15 == <<"gemini-1.5-flash">>

\* line 31: DEFAULT_MODEL is read from the environment; the values it is
\* given here are model names of the Gemini API
DefaultModels == {Preview1225, Flash20Exp}

model_mapping ==
    [k \in {NativeAudio, NativeAudio0925, Flash20Exp, Pro15, Flash15} |->
        IF k \in {NativeAudio, NativeAudio0925} THEN Preview1225 ELSE k]

\* mutant: the built-in default, whatever DEFAULT_MODEL is configured
map_vertex_ai_to_gemini_api_model_builtin_default(vertex_model_name) ==
    IF vertex_model_name \in DOMAIN model_mapping
    THEN model_mapping[vertex_model_name]
    ELSE IF ~StartsWith(vertex_model_name, LivePrefix)
         THEN vertex_model_name
         ELSE Preview1225

map_vertex_ai_to_gemini_api_model(vertex_model_name) ==
    IF vertex_model_name \in DOMAIN model_mapping
    THEN model_mapping[vertex_model_name]
    ELSE IF ~StartsWith(vertex_model_name, LivePrefix)
         THEN vertex_model_name
         ELSE DEFAULT_MODEL

\* mutant: "models/" is put in front without looking at the name
extract_model_name_always_prefixes(model_uri) ==
    IF ~Truthy(model_uri) THEN JStr(ModelsPrefix \o DEFAULT_MODEL)
    ELSE IF model_uri.t # "str" THEN Raise
    ELSE LET model_name == IF SubstringOf(ModelsInfix, model_uri.s)
                           THEN AfterLast(model_uri.s, ModelsInfix)
                           ELSE model_uri.s
         IN JStr(ModelsPrefix \o map_vertex_ai_to_gemini_api_model(model_name))

\* mutant: for an empty model the default is given without "models/"
extract_model_name_bare_default(model_uri) ==
    IF ~Truthy(model_uri) THEN JStr(DEFAULT_MODEL)
    ELSE IF model_uri.t # "str" THEN Raise
    ELSE LET model_name == IF SubstringOf(ModelsInfix, model_uri.s)
                           THEN AfterLast(model_uri.s, ModelsInfix)
                           ELSE model_uri.s
             gemini_api_model == map_vertex_ai_to_gemini_api_model(model_name)
         IN IF ~StartsWith(gemini_api_model, ModelsPrefix)
            THEN JStr(ModelsPrefix \o gemini_api_model)
            ELSE JStr(gemini_api_model)

\* extract_model_name on a JSON value: a str, or Raise.  A truthy value that
\* is not a str raises TypeError, in the "in" test (numbers) or in the dict
\* lookup of the mapping (unhashable dict).
extract_model_name(model_uri) ==
    IF ~Truthy(model_uri) THEN JStr(ModelsPrefix \o DEFAULT_MODEL)
    ELSE IF model_uri.t # "str" THEN Raise
    ELSE LET model_name == IF SubstringOf(ModelsInfix, model_uri.s)
                           THEN AfterLast(model_uri.s, ModelsInfix)
                           ELSE model_uri.s
             gemini_api_model == map_vertex_ai_to_gemini_api_model(model_name)
         IN IF ~StartsWith(gemini_api_model, ModelsPrefix)
            THEN JStr(ModelsPrefix \o gemini_api_model)
            ELSE JStr(gemini_api_model)


(***************************************************************************)
(* server_gemini_api.py proxy_task: the setup transformation               *)
(***************************************************************************)
\* lines 142-146: the unsupported setup field.  "del" on a str raises.
StripProactivity(setup) ==
    CASE KeyIn("proactivity", setup) = "no" -> setup
      [] KeyIn("proactivity", setup) = "raise" -> Raise
      [] OTHER -> IF setup.t = "obj"
                  THEN JObj(DelKey(setup.f, "proactivity"))
                  ELSE Raise

\* mutant: the whole generation_config goes when it has the unsupported field
StripAffectiveDialog_DropsConfig(setup) ==
    CASE KeyIn("generation_config", setup) = "no" -> setup
      [] KeyIn("generation_config", setup) = "raise" -> Raise
      [] OTHER ->
          IF setup.t # "obj" THEN Raise
          ELSE IF KeyIn("enable_affective_dialog", setup.f["generation_config"]) = "yes"
               THEN JObj(DelKey(setup.f, "generation_config"))
               ELSE setup

\* lines 149-159: the unsupported generation_config field.  The nested dict
\* is changed in place.
StripAffectiveDialog(setup) ==
    CASE KeyIn("generation_config", setup) = "no" -> setup
      [] KeyIn("generation_config", setup) = "raise" -> Raise
      [] OTHER ->
          IF setup.t # "obj" THEN Raise
          ELSE LET gen_config == setup.f["generation_config"]
                   has == KeyIn("enable_affective_dialog", gen_config)
               IN CASE has = "no" -> setup
                    [] has = "raise" -> Raise
                    [] OTHER ->
                        IF gen_config.t # "obj" THEN Raise
                        ELSE JObj(SetKey(setup.f, "generation_config",
                                  JObj(DelKey(gen_config.f, "enable_affective_dialog"))))

\* mutant: a setup section without a model is given the default model
MapModel_AddsDefault(setup) ==
    CASE KeyIn("model", setup) = "raise" -> Raise
      [] KeyIn("model", setup) = "no" ->
          IF setup.t # "obj" THEN setup
          ELSE JObj(SetKey(setup.f, "model", JStr(ModelsPrefix \o DEFAULT_MODEL)))
      [] OTHER ->
          IF setup.t # "obj" THEN Raise
          ELSE LET model_name == extract_model_name(setup.f["model"])
               IN IF model_name = Raise THEN Raise
                  ELSE JObj(SetKey(setup.f, "model", model_name))

\* lines 127-134: the model field
MapModel(setup) ==
    CASE KeyIn("model", setup) = "no" -> setup
      [] KeyIn("model", setup) = "raise" -> Raise
      [] OTHER ->
          IF setup.t # "obj" THEN Raise
          ELSE LET model_name == extract_model_name(setup.f["model"])
               IN IF model_name = Raise THEN Raise
                  ELSE JObj(SetKey(setup.f, "model", model_name))

\* lines 124-159, on the value of data["setup"]
TransformSetupSection(setup) ==
    LET s1 == MapModel(setup)
        s2 == IF s1 = Raise THEN Raise ELSE StripProactivity(s1)
    IN IF s2 = Raise THEN Raise ELSE StripAffectiveDialog(s2)

\* lines 123-159: what the loop does to the parsed message before it is
\* written: the message to write, or Raise when an exception leaves the
\* inner try block.
transform_setup_message(data) ==
    CASE KeyIn("setup", data) = "no" -> data
      [] KeyIn("setup", data) = "raise" -> Raise
      [] OTHER ->
          IF data.t # "obj" THEN Raise
          ELSE LET setup == TransformSetupSection(data.f["setup"])
               IN IF setup = Raise THEN Raise
                  ELSE JObj(SetKey(data.f, "setup", setup))

(***************************************************************************)
(* Messages on the wire                                                    *)
(***************************************************************************)
\* A text frame: id is its position in what the peer sent; json says whether
\* json.loads accepts the text; fmt is its layout (separators, spacing);
\* val is the JSON value it denotes.
Frame(id, json, fmt, val) == [id |-> id, json |-> json, fmt |-> fmt, val |-> val]

\* json.loads(message): the value, or Raise (JSONDecodeError)
Loads(message) == IF message.json THEN message.val ELSE Raise

\* json.dumps(data): the text Python writes for the value, with ", " and
\* ": " separators whatever the layout of the text that was parsed
Dumps(id, data) == Frame(id, TRUE, "dumps", data)

\* no first message received yet (frames that were sent have ids from 1)
NoHandshake == Frame(0, FALSE, "none", JNull)


(***************************************************************************)
(* The process and its sessions                                            *)
(***************************************************************************)
Sessions == {"s1", "s2"}
Dirs == {"c2s", "s2c"}

\* relay messages each peer may send in one session
MaxClientMsgs == 2
MaxUpstreamMsgs == 1
\* the same, in the specifications whose subject is not the relay itself
FewMsgs == 1

\* A connection.  by: who sent the close frame that closed it.
OpenConn == [st |-> "open", by |-> "none", code |-> 0, reason |-> ""]
NoConn == [st |-> "none", by |-> "none", code |-> 0, reason |-> ""]
ClosedConn(by, code, reason) == [st |-> "closed", by |-> by, code |-> code, reason |-> reason]

\* await ws.close(code, reason): sends the close frame when the connection
\* is open, does nothing when it is closed already
Close(conn, code, reason) ==
    IF conn.st = "open" THEN ClosedConn("proxy", code, reason) ELSE conn

\* a proxy_task: st is "none" (not created), "recv" (suspended in the async
\* for), "closing" (suspended in the finally block's close()), "done"
NoTask == [st |-> "none", cancelReq |-> FALSE, cancelled |-> FALSE]
NewTask == [st |-> "recv", cancelReq |-> FALSE, cancelled |-> FALSE]

NoConnect == [called |-> FALSE, url |-> <<>>, headers |-> NoKeys]


\* no message is under the setup transformation
NotYet == [t |-> "notyet"]
NoProbe == [message |-> NoHandshake, out |-> NotYet, again |-> NotYet]

\* the configuration, read from the environment when the module is loaded.
\* server.py has no API key and only prints its DEFAULT_MODEL;
\* server_gemini_api.py has no credentials.  main() of server.py has called
\* generate_access_token before it serves, which leaves os.environ with the
\* configured path, or without the variable.
Configured ==
    /\ variant \in {"managed", "direct"}
    /\ GEMINI_API_KEY \in {<<>>, <<"key-1">>}
    /\ DEFAULT_MODEL \in DefaultModels
    /\ GOOGLE_APPLICATION_CREDENTIALS \in {JNull, JStr(<<"sa.json">>)}
    /\ variant = "managed" => (GEMINI_API_KEY = <<>> /\ DEFAULT_MODEL = Preview1225)
    /\ variant = "direct" => GOOGLE_APPLICATION_CREDENTIALS = JNull
    /\ os_environ = IF Truthy(GOOGLE_APPLICATION_CREDENTIALS)
                    THEN GOOGLE_APPLICATION_CREDENTIALS
                    ELSE Absent

\* no client has connected
NoSessions ==
    /\ pc = [s \in Sessions |-> "idle"]
    /\ client = [s \in Sessions |-> NoConn]
    /\ upstream = [s \in Sessions |-> NoConn]
    /\ connect = [s \in Sessions |-> NoConnect]
    /\ tokenCalls = [s \in Sessions |-> 0]
    /\ bearer_token = [s \in Sessions |-> JNull]
    /\ handshake = [s \in Sessions |-> NoHandshake]
    /\ cIn = [s \in Sessions |-> <<>>]
    /\ uIn = [s \in Sessions |-> <<>>]
    /\ cSent = [s \in Sessions |-> 0]
    /\ uSent = [s \in Sessions |-> 0]
    /\ task = [s \in Sessions |-> [d \in Dirs |-> NoTask]]
    /\ recvd = [s \in Sessions |-> [d \in Dirs |-> <<>>]]
    /\ wrote = [s \in Sessions |-> [d \in Dirs |-> <<>>]]

Init ==
    /\ Configured
    /\ NoSessions
    /\ probe = NoProbe

(***************************************************************************)
(* The peers                                                               *)
(***************************************************************************)
\* websockets.serve accepts a connection and starts handle_websocket_client
ClientConnects(s) ==
    /\ pc[s] = "idle"
    /\ pc' = [pc EXCEPT ![s] = "handshake"]
    /\ client' = [client EXCEPT ![s] = OpenConn]
    /\ UNCHANGED <<variant, GEMINI_API_KEY, DEFAULT_MODEL, probe, GOOGLE_APPLICATION_CREDENTIALS, os_environ, upstream, connect, tokenCalls, bearer_token, handshake,
                   cIn, uIn, cSent, uSent, task, recvd, wrote>>

\* the client sends a text frame: its first is drawn from first, the later
\* ones from later, at most max of them
ClientSends(s, first, later, max) ==
    /\ client[s].st = "open"
    /\ cSent[s] < 1 + max
    /\ \E m \in (IF cSent[s] = 0 THEN first ELSE later) :
         cIn' = [cIn EXCEPT ![s] = Append(@, Frame(cSent[s] + 1, m.json, m.fmt, m.val))]
    /\ cSent' = [cSent EXCEPT ![s] = @ + 1]
    /\ UNCHANGED <<variant, GEMINI_API_KEY, DEFAULT_MODEL, probe, GOOGLE_APPLICATION_CREDENTIALS, os_environ, pc, client, upstream, connect, tokenCalls, bearer_token,
                   handshake, uIn, uSent, task, recvd, wrote>>

ClientCloses(s) ==
    /\ client[s].st = "open"
    /\ client' = [client EXCEPT ![s] = ClosedConn("peer", 1000, "")]
    /\ UNCHANGED <<variant, GEMINI_API_KEY, DEFAULT_MODEL, probe, GOOGLE_APPLICATION_CREDENTIALS, os_environ, pc, upstream, connect, tokenCalls, bearer_token, handshake,
                   cIn, uIn, cSent, uSent, task, recvd, wrote>>

UpstreamSends(s, msgs, max) ==
    /\ upstream[s].st = "open"
    /\ uSent[s] < max
    /\ \E m \in msgs :
         uIn' = [uIn EXCEPT ![s] = Append(@, Frame(uSent[s] + 1, m.json, m.fmt, m.val))]
    /\ uSent' = [uSent EXCEPT ![s] = @ + 1]
    /\ UNCHANGED <<variant, GEMINI_API_KEY, DEFAULT_MODEL, probe, GOOGLE_APPLICATION_CREDENTIALS, os_environ, pc, client, upstream, connect, tokenCalls, bearer_token,
                   handshake, cIn, cSent, task, recvd, wrote>>

\* the close frames the upstream may send
UpstreamCloseFrames ==
    { [code |-> 1000, reason |-> ""], [code |-> 1011, reason |-> "upstream error"] }

UpstreamCloses(s) ==
    /\ upstream[s].st = "open"
    /\ \E c \in UpstreamCloseFrames :
         upstream' = [upstream EXCEPT ![s] = ClosedConn("peer", c.code, c.reason)]
    /\ UNCHANGED <<variant, GEMINI_API_KEY, DEFAULT_MODEL, probe, GOOGLE_APPLICATION_CREDENTIALS, os_environ, pc, client, connect, tokenCalls, bearer_token, handshake,
                   cIn, uIn, cSent, uSent, task, recvd, wrote>>


(***************************************************************************)
(* handle_websocket_client                                                 *)
(***************************************************************************)
\* what the handler does after the first message: close the client and
\* return, or call create_proxy
CloseWith(code, reason, calls, token) ==
    [act |-> "close", code |-> code, reason |-> reason, calls |-> calls,
     token |-> token, url |-> <<>>, headers |-> NoKeys]
ProxyTo(url, headers, calls, token) ==
    [act |-> "proxy", code |-> 0, reason |-> "", calls |-> calls,
     token |-> token, url |-> url, headers |-> headers]

\* dict.get(key): None when the key is absent
Get(data, key) == IF key \in DOMAIN data.f THEN data.f[key] ELSE JNull

\* generate_access_token(): creds.token, or None on any failure
generate_access_token == {JNull, JStr(<<"adc-token">>)}

\* str.strip() of an environment value
Strip(v) == JStr(SelectSeq(v.s, LAMBDA c : c # " "))

\* mutant: a missing service-account file takes the variable out of os.environ
generate_access_token_environ_forgets(environ, exists) ==
    IF Truthy(GOOGLE_APPLICATION_CREDENTIALS)
    THEN IF ~exists THEN Absent ELSE GOOGLE_APPLICATION_CREDENTIALS
    ELSE IF environ # Absent /\ ~Truthy(Strip(environ)) THEN Absent ELSE environ

\* server.py lines 47-62: what generate_access_token leaves in
\* os.environ['GOOGLE_APPLICATION_CREDENTIALS']; exists: os.path.exists
generate_access_token_environ(environ, exists) ==
    IF Truthy(GOOGLE_APPLICATION_CREDENTIALS)
    THEN IF ~exists THEN environ ELSE GOOGLE_APPLICATION_CREDENTIALS
    ELSE IF environ # Absent /\ ~Truthy(Strip(environ)) THEN Absent ELSE environ

\* server.py create_proxy lines 136-139
BearerHeaders(token) ==
    [k \in {"Content-Type", "Authorization"} |->
        IF k = "Content-Type" THEN <<"application/json">>
        ELSE <<"Bearer ">> \o token.s]

\* server_gemini_api.py create_proxy lines 187-189
KeyHeaders == [k \in {"Content-Type"} |-> <<"application/json">>]

\* server_gemini_api.py line 279
GeminiUrl(key) ==
    <<"wss://generativelanguage.googleapis.com/ws/google.ai.generativelanguage.v1beta.GenerativeService.BidiGenerateContent?key=">>
        \o key

\* mutant: the service URL is checked before the token is resolved
handle_websocket_client_managed_url_first(message, generated) ==
    LET data == Loads(message)
    IN IF data = Raise THEN CloseWith(1008, "Invalid JSON", 0, JNull)
       ELSE IF data.t # "obj" THEN CloseWith(1011, "Internal error", 0, JNull)
       ELSE LET supplied == Get(data, "bearer_token")
                service_url == Get(data, "service_url")
                calls == IF Truthy(supplied) THEN 0 ELSE 1
                token == IF Truthy(supplied) THEN supplied ELSE generated
            IN IF ~Truthy(service_url)
               THEN CloseWith(1008, "Service URL is required", 0, supplied)
               ELSE IF ~Truthy(token)
                    THEN CloseWith(1008, "Authentication failed", calls, token)
                    ELSE ProxyTo(service_url.s, BearerHeaders(token), calls, token)

\* mutant: a token is generated whatever the client supplied
handle_websocket_client_managed_always_generates(message, generated) ==
    LET data == Loads(message)
    IN IF data = Raise THEN CloseWith(1008, "Invalid JSON", 0, JNull)
       ELSE IF data.t # "obj" THEN CloseWith(1011, "Internal error", 0, JNull)
       ELSE LET service_url == Get(data, "service_url")
            IN IF ~Truthy(generated)
               THEN CloseWith(1008, "Authentication failed", 1, generated)
               ELSE IF ~Truthy(service_url)
                    THEN CloseWith(1008, "Service URL is required", 1, generated)
                    ELSE ProxyTo(service_url.s, BearerHeaders(generated), 1, generated)

\* mutant: the upstream is connected to whether or not there is a token
handle_websocket_client_managed_unauthenticated(message, generated) ==
    LET data == Loads(message)
    IN IF data = Raise THEN CloseWith(1008, "Invalid JSON", 0, JNull)
       ELSE IF data.t # "obj" THEN CloseWith(1011, "Internal error", 0, JNull)
       ELSE LET supplied == Get(data, "bearer_token")
                service_url == Get(data, "service_url")
                calls == IF Truthy(supplied) THEN 0 ELSE 1
                token == IF Truthy(supplied) THEN supplied ELSE generated
            IN IF ~Truthy(service_url)
               THEN CloseWith(1008, "Service URL is required", calls, token)
               ELSE ProxyTo(service_url.s, KeyHeaders, calls, token)

\* server.py lines 215-250; generated is what generate_access_token returns
\* if it is called
handle_websocket_client_managed(message, generated) ==
    LET data == Loads(message)
    IN IF data = Raise THEN CloseWith(1008, "Invalid JSON", 0, JNull)
       ELSE IF data.t # "obj" THEN CloseWith(1011, "Internal error", 0, JNull)
       ELSE LET supplied == Get(data, "bearer_token")
                service_url == Get(data, "service_url")
                calls == IF Truthy(supplied) THEN 0 ELSE 1
                token == IF Truthy(supplied) THEN supplied ELSE generated
            IN IF ~Truthy(token) THEN CloseWith(1008, "Authentication failed", calls, token)
               ELSE IF ~Truthy(service_url)
                    THEN CloseWith(1008, "Service URL is required", calls, token)
                    ELSE ProxyTo(service_url.s, BearerHeaders(token), calls, token)

\* mutant: no clause for JSONDecodeError, the generic handler answers
handle_websocket_client_direct_generic_error(message, key) ==
    LET data == Loads(message)
    IN IF data = Raise THEN CloseWith(1011, "Internal error", 0, JNull)
       ELSE IF key = <<>> THEN CloseWith(1008, "API key required", 0, JNull)
       ELSE ProxyTo(GeminiUrl(key), KeyHeaders, 0, JNull)

\* mutant: the client's service_url is used when it gives one
handle_websocket_client_direct_client_url(message, key) ==
    LET data == Loads(message)
    IN IF data = Raise THEN CloseWith(1008, "Invalid JSON", 0, JNull)
       ELSE IF key = <<>> THEN CloseWith(1008, "API key required", 0, JNull)
       ELSE IF data.t = "obj" /\ Truthy(Get(data, "service_url"))
            THEN ProxyTo(Get(data, "service_url").s, KeyHeaders, 0, JNull)
            ELSE ProxyTo(GeminiUrl(key), KeyHeaders, 0, JNull)

\* server_gemini_api.py lines 267-299
handle_websocket_client_direct(message, key) ==
    LET data == Loads(message)
    IN IF data = Raise THEN CloseWith(1008, "Invalid JSON", 0, JNull)
       ELSE IF key = <<>> THEN CloseWith(1008, "API key required", 0, JNull)
       ELSE ProxyTo(GeminiUrl(key), KeyHeaders, 0, JNull)

\* mutant: the first message is looked at and left for the relay
AfterFirstMessage_Peeked(inbox) == inbox

\* client_websocket.recv() takes the first message off the connection
AfterFirstMessage(inbox) == Tail(inbox)

\* the first message arrives within the 10 seconds
handle_websocket_client_recv(s) ==
    /\ pc[s] = "handshake"
    /\ cIn[s] # <<>>
    /\ \E generated \in generate_access_token, exists \in BOOLEAN :
         LET message == Head(cIn[s])
             r == IF variant = "managed"
                  THEN handle_websocket_client_managed(message, generated)
                  ELSE handle_websocket_client_direct(message, GEMINI_API_KEY)
         IN /\ (Truthy(GOOGLE_APPLICATION_CREDENTIALS) /\ ~exists) => generated = JNull
            /\ handshake' = [handshake EXCEPT ![s] = message]
            /\ tokenCalls' = [tokenCalls EXCEPT ![s] = @ + r.calls]
            /\ bearer_token' = [bearer_token EXCEPT ![s] = r.token]
            /\ os_environ' = IF r.calls = 1
                             THEN generate_access_token_environ(os_environ, exists)
                             ELSE os_environ
            /\ IF r.act = "close"
               THEN /\ client' = [client EXCEPT ![s] = Close(@, r.code, r.reason)]
                    /\ pc' = [pc EXCEPT ![s] = "closed"]
                    /\ UNCHANGED connect
               ELSE /\ connect' = [connect EXCEPT ![s] =
                                     [called |-> TRUE, url |-> r.url, headers |-> r.headers]]
                    /\ pc' = [pc EXCEPT ![s] = "connecting"]
                    /\ UNCHANGED client
    /\ cIn' = [cIn EXCEPT ![s] = AfterFirstMessage(@)]
    /\ UNCHANGED <<variant, GEMINI_API_KEY, DEFAULT_MODEL, probe, GOOGLE_APPLICATION_CREDENTIALS,
                   upstream, uIn, cSent, uSent, task, recvd, wrote>>

\* asyncio.TimeoutError: no first message within the 10 seconds
handle_websocket_client_timeout(s) ==
    /\ pc[s] = "handshake"
    /\ cIn[s] = <<>>
    /\ client[s].st = "open"
    /\ client' = [client EXCEPT ![s] = Close(@, 1008, "Timeout")]
    /\ pc' = [pc EXCEPT ![s] = "closed"]
    /\ UNCHANGED <<variant, GEMINI_API_KEY, DEFAULT_MODEL, probe, GOOGLE_APPLICATION_CREDENTIALS, os_environ, upstream, connect, tokenCalls, bearer_token, handshake,
                   cIn, uIn, cSent, uSent, task, recvd, wrote>>

\* recv() raises ConnectionClosed: the client left without a first message;
\* the generic handler finds the connection closed
handle_websocket_client_gone(s) ==
    /\ pc[s] = "handshake"
    /\ cIn[s] = <<>>
    /\ client[s].st = "closed"
    /\ client' = [client EXCEPT ![s] = Close(@, 1011, "Internal error")]
    /\ pc' = [pc EXCEPT ![s] = "closed"]
    /\ UNCHANGED <<variant, GEMINI_API_KEY, DEFAULT_MODEL, probe, GOOGLE_APPLICATION_CREDENTIALS, os_environ, upstream, connect, tokenCalls, bearer_token, handshake,
                   cIn, uIn, cSent, uSent, task, recvd, wrote>>

(***************************************************************************)
(* create_proxy                                                            *)
(***************************************************************************)
\* websockets.connect succeeds; both proxy_tasks are created and run up to
\* their first await; the session suspends in asyncio.wait
create_proxy_connected(s) ==
    /\ pc[s] = "connecting"
    /\ upstream' = [upstream EXCEPT ![s] = OpenConn]
    /\ task' = [task EXCEPT ![s] = [d \in Dirs |-> NewTask]]
    /\ pc' = [pc EXCEPT ![s] = "wait"]
    /\ UNCHANGED <<variant, GEMINI_API_KEY, DEFAULT_MODEL, probe, GOOGLE_APPLICATION_CREDENTIALS, os_environ, client, connect, tokenCalls, bearer_token, handshake,
                   cIn, uIn, cSent, uSent, recvd, wrote>>

\* websockets.connect raises: the "except Exception" of create_proxy
create_proxy_connect_failed(s) ==
    /\ pc[s] = "connecting"
    /\ client' = [client EXCEPT ![s] = Close(@, 1008, "Upstream connection failed")]
    /\ pc' = [pc EXCEPT ![s] = "closed"]
    /\ UNCHANGED <<variant, GEMINI_API_KEY, DEFAULT_MODEL, probe, GOOGLE_APPLICATION_CREDENTIALS, os_environ, upstream, connect, tokenCalls, bearer_token, handshake,
                   cIn, uIn, cSent, uSent, task, recvd, wrote>>

\* the tasks asyncio.wait reports as pending
Pending(s) == {d \in Dirs : task[s][d].st # "done"}

\* mutant: asyncio.wait returns at once
FirstCompleted_AtOnce(s) == TRUE

\* return_when=FIRST_COMPLETED: asyncio.wait returns when a task is done
FirstCompleted(s) == Pending(s) # Dirs

\* asyncio.wait(FIRST_COMPLETED) returns; task.cancel() on the pending task
\* (at most one is pending); the session suspends in "await task"
create_proxy_wait(s) ==
    /\ pc[s] = "wait"
    /\ FirstCompleted(s)
    /\ task' = [task EXCEPT ![s] =
                  [d \in Dirs |-> IF d \in Pending(s)
                                  THEN [task[s][d] EXCEPT !.cancelReq = TRUE]
                                  ELSE task[s][d]]]
    /\ pc' = [pc EXCEPT ![s] = IF Pending(s) = {} THEN "close_server" ELSE "await_task"]
    /\ UNCHANGED <<variant, GEMINI_API_KEY, DEFAULT_MODEL, probe, GOOGLE_APPLICATION_CREDENTIALS, os_environ, client, upstream, connect, tokenCalls, bearer_token,
                   handshake, cIn, uIn, cSent, uSent, recvd, wrote>>

\* mutant: the session does not wait for the task it has cancelled
AwaitedTaskDone_NoWait(s) == TRUE

\* "await task" returns (CancelledError is swallowed) once the task is done
AwaitedTaskDone(s) == Pending(s) = {}

create_proxy_await_task(s) ==
    /\ pc[s] = "await_task"
    /\ AwaitedTaskDone(s)
    /\ pc' = [pc EXCEPT ![s] = "close_server"]
    /\ UNCHANGED <<variant, GEMINI_API_KEY, DEFAULT_MODEL, probe, GOOGLE_APPLICATION_CREDENTIALS, os_environ, client, upstream, connect, tokenCalls, bearer_token,
                   handshake, cIn, uIn, cSent, uSent, task, recvd, wrote>>

\* await server_websocket.close()
create_proxy_close_server(s) ==
    /\ pc[s] = "close_server"
    /\ upstream' = [upstream EXCEPT ![s] = Close(@, 1000, "")]
    /\ pc' = [pc EXCEPT ![s] = "close_client"]
    /\ UNCHANGED <<variant, GEMINI_API_KEY, DEFAULT_MODEL, probe, GOOGLE_APPLICATION_CREDENTIALS, os_environ, client, connect, tokenCalls, bearer_token, handshake,
                   cIn, uIn, cSent, uSent, task, recvd, wrote>>

\* await client_websocket.close(); create_proxy and the handler return
create_proxy_close_client(s) ==
    /\ pc[s] = "close_client"
    /\ client' = [client EXCEPT ![s] = Close(@, 1000, "")]
    /\ pc' = [pc EXCEPT ![s] = "closed"]
    /\ UNCHANGED <<variant, GEMINI_API_KEY, DEFAULT_MODEL, probe, GOOGLE_APPLICATION_CREDENTIALS, os_environ, upstream, connect, tokenCalls, bearer_token, handshake,
                   cIn, uIn, cSent, uSent, task, recvd, wrote>>


(***************************************************************************)
(* proxy_task                                                              *)
(***************************************************************************)
\* create_proxy starts the client-to-server task with the client as source
\* and the upstream as destination, the server-to-client task the other way
SourceConn(s, d) == IF d = "c2s" THEN client[s] ELSE upstream[s]
DestConn(s, d) == IF d = "c2s" THEN upstream[s] ELSE client[s]
Inbox(s, d) == IF d = "c2s" THEN cIn[s] ELSE uIn[s]

\* the arguments create_proxy gives the task: is_server, and
\* transform_setup_message (server_gemini_api.py lines 208-213; the
\* proxy_task of server.py has no such parameter)
IsServer(d) == d = "s2c"
TransformSetupMessage(d) == variant = "direct" /\ d = "c2s"

\* mutant: only the first relayed frame (the second the client sends) is
\* transformed
Outgoing_FirstOnly(d, message) ==
    LET data == Loads(message)
    IN IF data = Raise THEN Raise
       ELSE LET out == IF TransformSetupMessage(d) /\ ~IsServer(d) /\ message.id = 2
                       THEN transform_setup_message(data)
                       ELSE data
            IN IF out = Raise THEN Raise ELSE Dumps(message.id, out)

\* mutant: setup sections are transformed in both directions and variants
Outgoing_AlwaysTransforms(d, message) ==
    LET data == Loads(message)
    IN IF data = Raise THEN Raise
       ELSE LET out == transform_setup_message(data)
            IN IF out = Raise THEN Raise ELSE Dumps(message.id, out)

\* mutant: a text that is no JSON is handed on as it is
Outgoing_ForwardsUnparsed(d, message) ==
    LET data == Loads(message)
    IN IF data = Raise THEN message
       ELSE LET out == IF TransformSetupMessage(d) /\ ~IsServer(d)
                       THEN transform_setup_message(data)
                       ELSE data
            IN IF out = Raise THEN Raise ELSE Dumps(message.id, out)

\* the body of the inner try block up to the send: the frame handed to
\* destination_websocket.send, or Raise when an exception skips the send
Outgoing(d, message) ==
    LET data == Loads(message)
    IN IF data = Raise THEN Raise
       ELSE LET out == IF TransformSetupMessage(d) /\ ~IsServer(d)
                       THEN transform_setup_message(data)
                       ELSE data
            IN IF out = Raise THEN Raise ELSE Dumps(message.id, out)

\* await destination_websocket.send(frame): the frame goes out when the
\* connection is open; on a closed connection send raises ConnectionClosed,
\* which the inner "except Exception" swallows
Send(conn, sent, frame) ==
    IF frame # Raise /\ conn.st = "open" THEN Append(sent, frame) ELSE sent

\* one turn of the "async for": receive, parse, transform, send
proxy_task_forward(s, d) ==
    /\ task[s][d].st = "recv"
    /\ ~task[s][d].cancelReq
    /\ Inbox(s, d) # <<>>
    /\ LET message == Head(Inbox(s, d))
       IN /\ recvd' = [recvd EXCEPT ![s][d] = Append(@, message)]
          /\ wrote' = [wrote EXCEPT ![s][d] = Send(DestConn(s, d), @, Outgoing(d, message))]
    /\ IF d = "c2s"
       THEN cIn' = [cIn EXCEPT ![s] = Tail(@)] /\ UNCHANGED uIn
       ELSE uIn' = [uIn EXCEPT ![s] = Tail(@)] /\ UNCHANGED cIn
    /\ UNCHANGED <<variant, GEMINI_API_KEY, DEFAULT_MODEL, probe, GOOGLE_APPLICATION_CREDENTIALS, os_environ, pc, client, upstream, connect, tokenCalls, bearer_token,
                   handshake, cSent, uSent, task>>

\* "finally: await destination_websocket.close()": the close frame goes out
\* at once, the task then waits for the closing handshake
CloseDestination(s, d) ==
    IF d = "c2s"
    THEN upstream' = [upstream EXCEPT ![s] = Close(@, 1000, "")] /\ UNCHANGED client
    ELSE client' = [client EXCEPT ![s] = Close(@, 1000, "")] /\ UNCHANGED upstream

\* mutant: ConnectionClosed is swallowed inside the loop, which goes on
proxy_task_source_closed_swallowed(s, d) ==
    /\ task[s][d].st = "recv"
    /\ ~task[s][d].cancelReq
    /\ Inbox(s, d) = <<>>
    /\ SourceConn(s, d).st = "closed"
    /\ UNCHANGED vars

\* the source is closed and drained: the iteration ends (or raises
\* ConnectionClosed, which is caught) and the finally block runs
proxy_task_source_closed(s, d) ==
    /\ task[s][d].st = "recv"
    /\ ~task[s][d].cancelReq
    /\ Inbox(s, d) = <<>>
    /\ SourceConn(s, d).st = "closed"
    /\ CloseDestination(s, d)
    /\ task' = [task EXCEPT ![s][d].st = "closing"]
    /\ UNCHANGED <<variant, GEMINI_API_KEY, DEFAULT_MODEL, probe, GOOGLE_APPLICATION_CREDENTIALS, os_environ, pc, connect, tokenCalls, bearer_token, handshake,
                   cIn, uIn, cSent, uSent, recvd, wrote>>

\* mutant: no finally block, a cancelled task ends where it stands
proxy_task_cancelled_no_finally(s, d) ==
    /\ task[s][d].cancelReq
    /\ task[s][d].st \in {"recv", "closing"}
    /\ task' = [task EXCEPT ![s][d] =
                  [st |-> "done", cancelReq |-> FALSE, cancelled |-> TRUE]]
    /\ UNCHANGED <<client, upstream>>
    /\ UNCHANGED <<variant, GEMINI_API_KEY, DEFAULT_MODEL, probe, GOOGLE_APPLICATION_CREDENTIALS, os_environ, pc, connect, tokenCalls, bearer_token, handshake,
                   cIn, uIn, cSent, uSent, recvd, wrote>>

\* CancelledError is raised at the await the task is suspended in.  In the
\* loop: no except clause catches it, the finally block runs.  In the finally
\* block's close(): the task ends.
proxy_task_cancelled(s, d) ==
    /\ task[s][d].cancelReq
    /\ task[s][d].st \in {"recv", "closing"}
    /\ IF task[s][d].st = "recv"
       THEN /\ CloseDestination(s, d)
            /\ task' = [task EXCEPT ![s][d] =
                          [st |-> "closing", cancelReq |-> FALSE, cancelled |-> TRUE]]
       ELSE /\ task' = [task EXCEPT ![s][d] =
                          [st |-> "done", cancelReq |-> FALSE, cancelled |-> TRUE]]
            /\ UNCHANGED <<client, upstream>>
    /\ UNCHANGED <<variant, GEMINI_API_KEY, DEFAULT_MODEL, probe, GOOGLE_APPLICATION_CREDENTIALS, os_environ, pc, connect, tokenCalls, bearer_token, handshake,
                   cIn, uIn, cSent, uSent, recvd, wrote>>

\* destination_websocket.close() returns; the task is done
proxy_task_closed(s, d) ==
    /\ task[s][d].st = "closing"
    /\ ~task[s][d].cancelReq
    /\ task' = [task EXCEPT ![s][d].st = "done"]
    /\ UNCHANGED <<variant, GEMINI_API_KEY, DEFAULT_MODEL, probe, GOOGLE_APPLICATION_CREDENTIALS, os_environ, pc, client, upstream, connect, tokenCalls, bearer_token,
                   handshake, cIn, uIn, cSent, uSent, recvd, wrote>>


(***************************************************************************)
(* The frames the peers send                                               *)
(***************************************************************************)
\* a text json.loads rejects
BadText == Frame(0, FALSE, "text", JNull)

ClientToken == JStr(<<"client-token">>)
ServiceUrl1 == JStr(<<"wss://service-1">>)
ServiceUrl2 == JStr(<<"wss://service-2">>)

\* the JSON object with the given members; Absent leaves a member out
Object2(k1, v1, k2, v2) ==
    JObj([k \in {k \in {k1, k2} : (IF k = k1 THEN v1 ELSE v2) # Absent} |->
            IF k = k1 THEN v1 ELSE v2])

\* first messages: every combination of bearer_token and service_url, a
\* JSON value that is no object, and a text that is no JSON
HandshakeObjects ==
    { Frame(0, TRUE, "compact", Object2("bearer_token", tok, "service_url", url)) :
        tok \in {Absent, JStr(<<>>), ClientToken},
        url \in {Absent, ServiceUrl1, ServiceUrl2} }
FirstMsgs == HandshakeObjects \cup {BadText, Frame(0, TRUE, "compact", JNum(7))}
\* the first message of a client that is let through in both variants
GoodFirstMsgs ==
    { Frame(0, TRUE, "compact", Object2("bearer_token", ClientToken, "service_url", ServiceUrl1)) }

\* "projects/p/locations/r/publishers/google/models/gemini-live-2.5-flash-native-audio"
VertexModelUri == <<"projects/p/locations/r/publishers/google", "/", "M", "/">> \o NativeAudio

VertexSetup ==
    JObj([k \in {"model", "proactivity", "generation_config"} |->
        CASE k = "model" -> JStr(VertexModelUri)
          [] k = "proactivity" -> JObj([j \in {"proactive_audio"} |-> JNum(1)])
          [] k = "generation_config" ->
               JObj([j \in {"enable_affective_dialog", "temperature"} |-> JNum(1)])])

SetupMsg == Frame(0, TRUE, "compact", JObj([k \in {"setup"} |-> VertexSetup]))
\* a setup section that is a number: "model" in 5 raises TypeError
BrokenSetupMsg == Frame(0, TRUE, "compact", JObj([k \in {"setup"} |-> JNum(5)]))
AudioMsg == Frame(0, TRUE, "compact", JObj([k \in {"realtime_input"} |-> JNum(1)]))
ContentMsg == Frame(0, TRUE, "spaced", JObj([k \in {"serverContent"} |-> JNum(1)]))

ClientMsgs == {BadText, AudioMsg, SetupMsg, BrokenSetupMsg}
UpstreamMsgs == {BadText, ContentMsg, SetupMsg}

(***************************************************************************)
(* The setup transformation on its own                                     *)
(***************************************************************************)
\* the JSON object with the members of f that are not Absent
Members(f) == JObj([k \in {j \in DOMAIN f : f[j] # Absent} |-> f[k]])

VertexPath == <<"projects/p/locations/r/publishers/google", "/", "M", "/">>
UnknownLive == <<"L", "3.0-unheard-of">>
UnknownGemini == <<"gemini-3.0-unheard-of">>

\* the strs a client may put in setup.model: table keys, bare, as a full
\* resource path and under "models/"; names that are no key, in the same
\* forms; paths with "/models/" twice, overlapping or not; a path that ends
\* in "/models/"; the empty str
ModelStrings ==
    { NativeAudio, NativeAudio0925, Flash20Exp,
      VertexPath \o NativeAudio, VertexPath \o NativeAudio0925, VertexPath \o Pro15,
      ModelsPrefix \o NativeAudio, ModelsPrefix \o NativeAudio0925, ModelsPrefix \o Flash15,
      UnknownLive, VertexPath \o UnknownLive, ModelsPrefix \o UnknownLive,
      UnknownGemini, VertexPath \o UnknownGemini, ModelsPrefix \o UnknownGemini,
      VertexPath \o ModelsPrefix \o NativeAudio, VertexPath \o VertexPath \o Flash15,
      VertexPath, <<>> }

\* the values of setup.model: a str, null, a number, or no model field
ModelValues == {JStr(x) : x \in ModelStrings} \cup {JNull, JNum(5), Absent}

Proactivity == JObj([j \in {"proactive_audio"} |-> JNum(1)])
GenConfigs ==
    { Absent,
      JObj([j \in {"temperature"} |-> JNum(1)]),
      JObj([j \in {"enable_affective_dialog", "temperature"} |-> JNum(1)]) }

\* {"setup": {"model": .., "proactivity": .., "generation_config": ..,
\*            "system_instruction": 1}, "client_tag": 1}
SetupWith(model, proactivity, gen_config) ==
    Frame(1, TRUE, "compact",
          JObj([k \in {"setup", "client_tag"} |->
                 IF k = "client_tag" THEN JNum(1)
                 ELSE Members([j \in {"model", "proactivity", "generation_config",
                                      "system_instruction"} |->
                                 CASE j = "model" -> model
                                   [] j = "proactivity" -> proactivity
                                   [] j = "generation_config" -> gen_config
                                   [] OTHER -> JNum(1)])]))

\* the client messages taken through the transformation: setup messages,
\* messages without a setup section, setup sections that are no object
SetupProbes ==
    { SetupWith(m, p, g) : m \in ModelValues, p \in {Absent, Proactivity}, g \in GenConfigs }
      \cup { Frame(1, m.json, m.fmt, m.val) : m \in {AudioMsg, BrokenSetupMsg, BadText} }
      \cup { Frame(1, TRUE, "compact", JObj([k \in {"setup"} |-> JStr(<<"model">>)])) }

\* the direct-key variant has received a client message in its
\* client-to-server loop
InitSetup ==
    /\ variant = "direct"
    /\ GEMINI_API_KEY = <<"key-1">>
    /\ DEFAULT_MODEL \in DefaultModels
    /\ GOOGLE_APPLICATION_CREDENTIALS = JNull
    /\ os_environ = Absent
    /\ NoSessions
    /\ \E m \in SetupProbes : probe = [message |-> m, out |-> NotYet, again |-> NotYet]

\* the loop body on the message: what it hands to send
proxy_task_transform ==
    /\ probe.message.id # 0
    /\ probe.out = NotYet
    /\ probe' = [probe EXCEPT !.out = Outgoing("c2s", probe.message)]
    /\ UNCHANGED <<variant, GEMINI_API_KEY, DEFAULT_MODEL, GOOGLE_APPLICATION_CREDENTIALS, os_environ, pc, client, upstream, connect,
                   tokenCalls, bearer_token, handshake, cIn, uIn, cSent, uSent, task,
                   recvd, wrote>>

\* the loop body on the text it produced, received as a client message
proxy_task_transform_again ==
    /\ probe.out \notin {NotYet, Raise}
    /\ probe.again = NotYet
    /\ probe' = [probe EXCEPT !.again = Outgoing("c2s", probe.out)]
    /\ UNCHANGED <<variant, GEMINI_API_KEY, DEFAULT_MODEL, GOOGLE_APPLICATION_CREDENTIALS, os_environ, pc, client, upstream, connect,
                   tokenCalls, bearer_token, handshake, cIn, uIn, cSent, uSent, task,
                   recvd, wrote>>

(***************************************************************************)
(* Specifications                                                          *)
(***************************************************************************)
Peers(s, first, later, maxC, ups, maxU) ==
    \/ ClientConnects(s)
    \/ ClientSends(s, first, later, maxC)
    \/ ClientCloses(s)
    \/ UpstreamSends(s, ups, maxU)
    \/ UpstreamCloses(s)

Program(s) ==
    \/ handle_websocket_client_recv(s)
    \/ handle_websocket_client_timeout(s)
    \/ handle_websocket_client_gone(s)
    \/ create_proxy_connected(s)
    \/ create_proxy_connect_failed(s)
    \/ create_proxy_wait(s)
    \/ create_proxy_await_task(s)
    \/ create_proxy_close_server(s)
    \/ create_proxy_close_client(s)
    \/ \E d \in Dirs : proxy_task_forward(s, d)
    \/ \E d \in Dirs : proxy_task_source_closed(s, d)
    \/ \E d \in Dirs : proxy_task_cancelled(s, d)
    \/ \E d \in Dirs : proxy_task_closed(s, d)

\* one session, any first message, a short relay
Next ==
    \/ Peers("s1", FirstMsgs, {AudioMsg}, FewMsgs, {ContentMsg}, FewMsgs)
    \/ Program("s1")

Spec == Init /\ [][Next]_vars

\* one session that is let through, the relay with every kind of frame
NextRelay ==
    \/ Peers("s1", GoodFirstMsgs, ClientMsgs, MaxClientMsgs, UpstreamMsgs, MaxUpstreamMsgs)
    \/ Program("s1")

SpecRelay == Init /\ [][NextRelay]_vars

\* the same with fewer frames and kinds of frame.  The asyncio event loop runs every ready
\* coroutine in turn, and recv, close and connect return in bounded time:
\* a step of the program that stays possible is taken.
NextFair ==
    \/ Peers("s1", GoodFirstMsgs, {AudioMsg, BadText}, FewMsgs, {ContentMsg}, FewMsgs)
    \/ Program("s1")

SpecFair == Init /\ [][NextFair]_vars /\ WF_vars(Program("s1"))

\* two sessions at once.  Session s1 is let through and relays what its
\* upstream sends; the client of s2 has a token or none, or sends a first
\* message that is no JSON, and no more.  main() of server_gemini_api.py
\* serves only with an API key.
PairFirstMsgs ==
    { Frame(0, TRUE, "compact", Object2("bearer_token", tok, "service_url", ServiceUrl2)) :
        tok \in {Absent, ClientToken} } \cup {BadText}
PairFirst(s) == IF s = "s1" THEN GoodFirstMsgs ELSE PairFirstMsgs
PairMax(s) == IF s = "s1" THEN FewMsgs ELSE 0

InitPair ==
    /\ Init
    /\ variant = "direct" => (GEMINI_API_KEY = <<"key-1">> /\ DEFAULT_MODEL = Preview1225)

NextPair ==
    \E s \in Sessions :
        \/ Peers(s, PairFirst(s), {AudioMsg}, 0, {ContentMsg}, PairMax(s))
        \/ Program(s)

SpecPair == InitPair /\ [][NextPair]_vars

\* the setup transformation, on every client message of SetupProbes
NextSetup ==
    \/ proxy_task_transform
    \/ proxy_task_transform_again

SpecSetup == InitSetup /\ [][NextSetup]_vars

(***************************************************************************)
(* Vocabulary of the properties                                            *)
(***************************************************************************)
TasksDone(s) == \A d \in Dirs : task[s][d].st = "done"
Spawned(s) == \A d \in Dirs : task[s][d].st # "none"
Relaying(s) == pc[s] \in {"wait", "await_task"}
SessionClosing(s) == pc[s] \in {"close_server", "close_client"}
Ids(frames) == {frames[i].id : i \in 1..Len(frames)}
\* the received frame a written frame comes from
Origin(s, d, w) == CHOOSE m \in {recvd[s][d][i] : i \in 1..Len(recvd[s][d])} : m.id = w.id

(***************************************************************************)
(* C1                                                                      *)
(***************************************************************************)
\* C1: once the two forwarding tasks are spawned, the session-level close of
\* the upstream and of the client runs only when both tasks have terminated;
\* while the session waits between the first termination and the close, one
\* task has terminated and the other one has been cancelled.
C1_CloseOnlyAfterBothTasksEnded ==
    \A s \in Sessions :
        /\ (SessionClosing(s) \/ (pc[s] = "closed" /\ Spawned(s))) => TasksDone(s)
        /\ pc[s] = "await_task" =>
             \E d \in Dirs :
                /\ task[s][d].st = "done"
                /\ \A e \in Dirs \ {d} : task[s][e].cancelReq \/ task[s][e].cancelled

\* the session is about to close the upstream and one task ended by cancellation
C1_Witness ==
    /\ pc["s1"] = "close_server"
    /\ \E d \in Dirs : task["s1"][d].cancelled

(***************************************************************************)
(* C2                                                                      *)
(***************************************************************************)
\* C2: once a session is relaying and its client or its upstream has closed
\* the connection, the session eventually is Closed, with both forwarding
\* tasks terminated and both connections closed.
C2_PeerCloseEndsSession ==
    \A s \in Sessions :
        (Relaying(s) /\ (client[s].by = "peer" \/ upstream[s].by = "peer"))
            ~> (/\ pc[s] = "closed"
                /\ TasksDone(s)
                /\ client[s].st = "closed"
                /\ upstream[s].st = "closed")

\* a relay that the upstream ended has been torn down
C2_Witness ==
    /\ pc["s1"] = "closed"
    /\ TasksDone("s1")
    /\ upstream["s1"].by = "peer"
    /\ client["s1"].by = "proxy"

(***************************************************************************)
(* C3                                                                      *)
(***************************************************************************)
\* the frames written are in the order of the frames received, none twice,
\* each from one received frame
C3_Order(s, d) ==
    /\ \A i, j \in 1..Len(wrote[s][d]) : i < j => wrote[s][d][i].id < wrote[s][d][j].id
    /\ Ids(wrote[s][d]) \subseteq Ids(recvd[s][d])

\* a received frame that is missing before a written one is no JSON
C3_OnlyUnparseableLeftOut(s, d) ==
    \A i \in 1..Len(recvd[s][d]) :
        LET m == recvd[s][d][i]
        IN (m.id \notin Ids(wrote[s][d]) /\ \E w \in Ids(wrote[s][d]) : w > m.id)
              => ~m.json

\* C3: within one forwarding direction the frames written to the destination
\* are an order-preserving subsequence of the frames received from the
\* source, and only unparseable frames are left out.
C3_Claim ==
    \A s \in Sessions : \A d \in Dirs : C3_Order(s, d) /\ C3_OnlyUnparseableLeftOut(s, d)

\* the ordering part of C3 alone
C3_OrderOnly == \A s \in Sessions : \A d \in Dirs : C3_Order(s, d)

(***************************************************************************)
(* C4                                                                      *)
(***************************************************************************)
\* C4: when the upstream closes the connection first during relay, with code
\* c and reason r, the proxy closes the client with code c and reason r.
C4_Claim ==
    \A s \in Sessions :
        (Spawned(s) /\ upstream[s].by = "peer" /\ client[s].by = "proxy")
            => /\ client[s].code = upstream[s].code
               /\ client[s].reason = upstream[s].reason

(***************************************************************************)
(* C5 - C8: the handshake                                                  *)
(***************************************************************************)
HandshakeObject(s) ==
    handshake[s].id # 0 /\ handshake[s].json /\ handshake[s].val.t = "obj"
Supplied(s, key) == Get(handshake[s].val, key)
NoTokenNoUrl(s) ==
    /\ HandshakeObject(s)
    /\ {"bearer_token", "service_url"} \cap DOMAIN handshake[s].val.f = {}
\* the proxy closed the client, with this code and reason
ClosedWith(s, code, reason) ==
    client[s].by = "proxy" => (client[s].code = code /\ client[s].reason = reason)
NothingUpstream(s) ==
    ~connect[s].called /\ upstream[s].st = "none" /\ ~Spawned(s)

\* C5: managed variant, first message without bearer_token and without
\* service_url: the client is closed with 1008 "Service URL is required" and
\* no upstream connection is attempted, whatever generate_access_token gave.
C5_Claim ==
    \A s \in Sessions :
        (variant = "managed" /\ NoTokenNoUrl(s)) =>
            /\ pc[s] = "closed"
            /\ NothingUpstream(s)
            /\ ClosedWith(s, 1008, "Service URL is required")

\* C5 as amended: the reason is "Service URL is required" when the token was
\* generated and "Authentication failed" when generate_access_token failed.
C5_Amended ==
    \A s \in Sessions :
        (variant = "managed" /\ NoTokenNoUrl(s)) =>
            /\ pc[s] = "closed"
            /\ NothingUpstream(s)
            /\ tokenCalls[s] = 1
            /\ IF Truthy(bearer_token[s])
               THEN ClosedWith(s, 1008, "Service URL is required")
               ELSE ClosedWith(s, 1008, "Authentication failed")

C5_Witness ==
    /\ variant = "managed"
    /\ NoTokenNoUrl("s1")
    /\ client["s1"].by = "proxy"
    /\ client["s1"].reason = "Service URL is required"

\* C6: managed variant, first message a JSON object: generate_access_token
\* is called exactly when the message has no non-empty bearer_token; a
\* supplied token is the one in the Authorization header; when the call
\* fails the client is closed with 1008 "Authentication failed", the session
\* is over and no upstream connection is attempted.
C6_TokenResolution ==
    \A s \in Sessions :
        (variant = "managed" /\ HandshakeObject(s)) =>
            /\ tokenCalls[s] = (IF Truthy(Supplied(s, "bearer_token")) THEN 0 ELSE 1)
            /\ (connect[s].called /\ Truthy(Supplied(s, "bearer_token"))) =>
                  connect[s].headers["Authorization"]
                     = <<"Bearer ">> \o Supplied(s, "bearer_token").s
            /\ (tokenCalls[s] = 1 /\ ~Truthy(bearer_token[s])) =>
                  /\ pc[s] = "closed"
                  /\ NothingUpstream(s)
                  /\ ClosedWith(s, 1008, "Authentication failed")

\* a service_url but no token, and the token could not be generated
C6_Witness ==
    /\ variant = "managed"
    /\ HandshakeObject("s1")
    /\ Truthy(Supplied("s1", "service_url"))
    /\ tokenCalls["s1"] = 1
    /\ ~Truthy(bearer_token["s1"])
    /\ client["s1"].by = "proxy"

\* C7: in both variants, no first message within the timeout closes the
\* client with 1008 "Timeout", a first message that is no JSON closes it with
\* 1008 "Invalid JSON"; in both cases the session is Closed without a call
\* of generate_access_token, without an upstream connection, without tasks.
C7_HandshakeFailure ==
    \A s \in Sessions :
        /\ (pc[s] = "closed" /\ handshake[s].id = 0) =>
              /\ ClosedWith(s, 1008, "Timeout")
              /\ tokenCalls[s] = 0
              /\ NothingUpstream(s)
        /\ (handshake[s].id # 0 /\ ~handshake[s].json) =>
              /\ pc[s] = "closed"
              /\ ClosedWith(s, 1008, "Invalid JSON")
              /\ tokenCalls[s] = 0
              /\ NothingUpstream(s)

C7_Witness ==
    /\ variant = "direct"
    /\ handshake["s1"].id # 0
    /\ ~handshake["s1"].json
    /\ client["s1"].by = "proxy"

\* C8: direct-key variant: websockets.connect is called with the URL built
\* from GEMINI_API_KEY and with the Content-Type header alone, whatever
\* service_url and bearer_token the first message carries; without an API
\* key the client is closed with 1008 and there is no upstream connection.
C8_UpstreamFromKeyOnly ==
    variant = "direct" =>
        \A s \in Sessions :
            /\ connect[s].called =>
                  /\ GEMINI_API_KEY # <<>>
                  /\ connect[s].url = GeminiUrl(GEMINI_API_KEY)
                  /\ DOMAIN connect[s].headers = {"Content-Type"}
            /\ GEMINI_API_KEY = <<>> =>
                  /\ NothingUpstream(s)
                  /\ (pc[s] = "closed" => (client[s].by = "proxy" => client[s].code = 1008))
                  /\ handshake[s].id # 0 => pc[s] = "closed"

\* connected, for a client that asked for another service with a token
C8_Witness ==
    /\ variant = "direct"
    /\ upstream["s1"].st = "open"
    /\ HandshakeObject("s1")
    /\ Supplied("s1", "service_url") = ServiceUrl2
    /\ Supplied("s1", "bearer_token") = ClientToken

(***************************************************************************)
(* C9, C10: what the relay does to the content                             *)
(***************************************************************************)
Written(s, d) == {wrote[s][d][i] : i \in 1..Len(wrote[s][d])}
Received(s, d) == {recvd[s][d][i] : i \in 1..Len(recvd[s][d])}

\* C9: direct-key variant: a client frame after the first relayed one (the
\* first relayed frame is the second the client sends) is written with its
\* content unchanged.
C9_Claim ==
    variant = "direct" =>
        \A s \in Sessions : \A w \in Written(s, "c2s") :
            (w.id > 2 /\ 2 \in Ids(wrote[s]["c2s"])) => w.val = Origin(s, "c2s", w).val

\* C9 as amended: a client frame without a "setup" key is written unchanged;
\* a client frame with a setup section that has a str model is written with
\* the model under "models/" and without proactivity, at any position.
C9_Amended ==
    variant = "direct" =>
        \A s \in Sessions : \A w \in Written(s, "c2s") :
            LET m == Origin(s, "c2s", w)
            IN /\ (m.val.t = "obj" /\ "setup" \notin DOMAIN m.val.f) => w.val = m.val
               /\ (m.val.t = "obj" /\ "setup" \in DOMAIN m.val.f) =>
                    LET before == m.val.f["setup"]
                        after == w.val.f["setup"]
                    IN (before.t = "obj" /\ "model" \in DOMAIN before.f
                           /\ before.f["model"].t = "str") =>
                         /\ StartsWith(after.f["model"].s, ModelsPrefix)
                         /\ "proactivity" \notin DOMAIN after.f

\* the third frame of the client, a setup message, went out transformed
\* after the second had gone out
C9_Witness ==
    /\ variant = "direct"
    /\ \E w \in Written("s1", "c2s") :
          /\ w.id = 3
          /\ 2 \in Ids(wrote["s1"]["c2s"])
          /\ Origin("s1", "c2s", w).val = SetupMsg.val
          /\ w.val # SetupMsg.val

\* every frame written in direction d has the content of the JSON frame it
\* comes from, in the layout of json.dumps
Untouched(s, d) ==
    \A w \in Written(s, d) :
        \E m \in Received(s, d) :
            m.id = w.id /\ m.json /\ w.json /\ w.val = m.val /\ w.fmt = "dumps"

\* as long as the destination is open, every JSON frame received in
\* direction d has been written
Delivered(s, d) ==
    DestConn(s, d).st = "open" =>
        \A m \in Received(s, d) : m.json => m.id \in Ids(wrote[s][d])

\* C10: every JSON frame received from the upstream is written to the
\* client with the same content, a "setup" key included, in both variants;
\* in the managed variant the same holds from the client to the upstream.
C10_UpstreamFramesUntouched ==
    \A s \in Sessions :
        /\ Untouched(s, "s2c") /\ Delivered(s, "s2c")
        /\ variant = "managed" => (Untouched(s, "c2s") /\ Delivered(s, "c2s"))

\* an upstream frame with a setup section reached the client of the
\* direct-key variant
C10_Witness ==
    /\ variant = "direct"
    /\ \E w \in Written("s1", "s2c") : w.val = SetupMsg.val

(***************************************************************************)
(* C11 - C14: the setup transformation                                     *)
(***************************************************************************)
\* the message under transformation is a setup message: a JSON object whose
\* setup section is a JSON object
SetupProbe ==
    /\ probe.message.json
    /\ probe.message.val.t = "obj"
    /\ "setup" \in DOMAIN probe.message.val.f
    /\ probe.message.val.f["setup"].t = "obj"
SentSetup == probe.message.val.f["setup"].f
\* its model field is the str x
ProbeModelIs(x) ==
    SetupProbe /\ "model" \in DOMAIN SentSetup /\ SentSetup["model"] = JStr(x)
\* the loop body has run on it / has handed a text to send
Transformed == probe.out # NotYet
Forwarded == probe.out \notin {NotYet, Raise}
ForwardedSetup == probe.out.val.f["setup"].f

\* the table keys that name managed-variant models
ManagedKeys == {k \in DOMAIN model_mapping : StartsWith(k, LivePrefix)}
\* x is the name k, bare or as the resource path
\* "projects/{project}/locations/{region}/publishers/google/models/k"
BareOrPath(x, k) == x = k \/ x = VertexPath \o k
\* the same, or "models/k"
NamesModel(x, k) == BareOrPath(x, k) \/ x = ModelsPrefix \o k

\* C11: direct-key variant: a setup message whose model field names a
\* managed-variant key k of the lookup table, bare, as a resource path ending
\* in "/models/k" or as "models/k", is forwarded with the model field
\* "models/" followed by the table's value for k.
C11_Claim ==
    \A k \in ManagedKeys : \A x \in ModelStrings :
        (NamesModel(x, k) /\ ProbeModelIs(x) /\ Transformed) =>
            /\ Forwarded
            /\ ForwardedSetup["model"] = JStr(ModelsPrefix \o model_mapping[k])

\* the part of C11 that holds: the bare name and the resource path
C11_BareAndPath ==
    \A k \in ManagedKeys : \A x \in ModelStrings :
        (BareOrPath(x, k) /\ ProbeModelIs(x) /\ Transformed) =>
            /\ Forwarded
            /\ ForwardedSetup["model"] = JStr(ModelsPrefix \o model_mapping[k])

\* the managed-variant names the clients use
ManagedNames == {NativeAudio, NativeAudio0925, UnknownLive}

SameApartFrom(a, b, except) ==
    /\ a.t = "obj" /\ b.t = "obj"
    /\ DOMAIN a.f \ except = DOMAIN b.f \ except
    /\ \A k \in DOMAIN a.f \ except : a.f[k] = b.f[k]

\* C13: direct-key variant: in a setup message that has gone through the
\* transformation, setup.proactivity and
\* setup.generation_config.enable_affective_dialog are absent, and every
\* other member of the message, of its setup section and of its
\* generation_config, apart from setup.model, is as the client sent it.
C13_UnsupportedFieldsStripped ==
    (SetupProbe /\ Forwarded) =>
        /\ SameApartFrom(probe.message.val, probe.out.val, {"setup"})
        /\ "setup" \in DOMAIN probe.out.val.f
        /\ "proactivity" \notin DOMAIN ForwardedSetup
        /\ SameApartFrom(JObj(SentSetup), JObj(ForwardedSetup),
                         {"model", "proactivity", "generation_config"})
        /\ ("model" \in DOMAIN SentSetup) = ("model" \in DOMAIN ForwardedSetup)
        /\ ("generation_config" \in DOMAIN SentSetup)
              = ("generation_config" \in DOMAIN ForwardedSetup)
        /\ "generation_config" \in DOMAIN SentSetup =>
              /\ "enable_affective_dialog" \notin DOMAIN ForwardedSetup["generation_config"].f
              /\ SameApartFrom(SentSetup["generation_config"],
                               ForwardedSetup["generation_config"],
                               {"enable_affective_dialog"})

\* a setup message with both unsupported fields has gone through
C13_Witness ==
    /\ SetupProbe
    /\ Forwarded
    /\ "proactivity" \in DOMAIN SentSetup
    /\ "generation_config" \in DOMAIN SentSetup
    /\ "enable_affective_dialog" \in DOMAIN SentSetup["generation_config"].f
    /\ "temperature" \in DOMAIN ForwardedSetup["generation_config"].f

\* C14: the transformation of a message that has gone through the
\* transformation gives the same message; and extract_model_name gives, on
\* the name it has given for a model str, that name.
C14_Idempotent ==
    /\ probe.again # NotYet => probe.again = probe.out
    /\ \A x \in ModelStrings :
          (ProbeModelIs(x) /\ probe.again # NotYet) =>
              /\ ForwardedSetup["model"] = extract_model_name(JStr(x))
              /\ probe.again.val.f["setup"].f["model"]
                    = extract_model_name(extract_model_name(JStr(x)))

\* a managed name under "models/" and the unsupported fields went through twice
C14_Witness ==
    /\ ProbeModelIs(VertexPath \o NativeAudio)
    /\ "proactivity" \in DOMAIN SentSetup
    /\ probe.again \notin {NotYet, Raise}
    /\ probe.again.val # probe.message.val

(***************************************************************************)
(* C15: sessions side by side                                              *)
(***************************************************************************)
\* all that belongs to one session, and what belongs to the process
SessionState(s) ==
    <<pc[s], client[s], upstream[s], connect[s], tokenCalls[s], bearer_token[s],
      handshake[s], cIn[s], uIn[s], cSent[s], uSent[s], task[s], recvd[s], wrote[s]>>
ProcessState ==
    <<variant, GEMINI_API_KEY, DEFAULT_MODEL, GOOGLE_APPLICATION_CREDENTIALS, os_environ>>

\* a step changes one session at most, and nothing of the process
StepOfOneSession ==
    /\ ProcessState' = ProcessState
    /\ \A s \in Sessions :
         SessionState(s)' # SessionState(s) =>
            \A t \in Sessions \ {s} : SessionState(t)' = SessionState(t)

\* the handler has closed the client of s after a failure
Failed(s) ==
    /\ pc[s] = "closed"
    /\ client[s].by = "proxy"
    /\ client[s].code \in {1008, 1011}

\* whatever has become of the other session, a client is accepted and its
\* first message is handled
ServesOthers ==
    \A s \in Sessions : \A t \in Sessions \ {s} :
        /\ pc[t] = "idle" => ENABLED ClientConnects(t)
        /\ (pc[t] = "handshake" /\ cIn[t] # <<>>) => ENABLED handle_websocket_client_recv(t)

\* C15: with two sessions side by side, a step of one session (its failure,
\* its call of generate_access_token, its teardown included) changes nothing
\* of the other session and nothing that the process holds, os.environ
\* included; and whatever state a session is in, failed included, the other
\* one is accepted and served.
C15_SessionsIsolated == [][StepOfOneSession]_vars /\ []ServesOthers

\* s1 relays while s2 has been turned away because no token could be made
C15_Witness ==
    /\ Relaying("s1")
    /\ wrote["s1"]["s2c"] # <<>>
    /\ Failed("s2")
    /\ tokenCalls["s2"] = 1
    /\ client["s2"].reason = "Authentication failed"

(***************************************************************************)
(* C16: the phases of a session                                            *)
(***************************************************************************)
\* Handshaking is "handshake"; Authenticating is inside the step that
\* handles the first message (there is no await in it); Connecting is
\* "connecting"; Relaying is "wait"; Closing is "await_task", "close_server",
\* "close_client"; Closed is "closed".
PhaseMoves ==
    { <<"idle", "handshake">>,
      <<"handshake", "connecting">>, <<"handshake", "closed">>,
      <<"connecting", "wait">>, <<"connecting", "closed">>,
      <<"wait", "await_task">>, <<"wait", "close_server">>,
      <<"await_task", "close_server">>,
      <<"close_server", "close_client">>,
      <<"close_client", "closed">> }

\* a session moves forward, and a Closed one does not move at all
ForwardStep ==
    \A s \in Sessions :
        /\ pc[s]' # pc[s] => <<pc[s], pc[s]'>> \in PhaseMoves
        /\ pc[s] = "closed" => SessionState(s)' = SessionState(s)

\* no token is asked for before the first message; no connection is asked
\* for before the token and the endpoint are there; no upstream connection
\* and no task without it
InOrder ==
    \A s \in Sessions :
        /\ tokenCalls[s] > 0 => (handshake[s].id # 0 /\ pc[s] # "handshake")
        /\ pc[s] \in {"idle", "handshake"} => NothingUpstream(s)
        /\ connect[s].called =>
              /\ HandshakeObject(s) \/ (variant = "direct" /\ handshake[s].json)
              /\ connect[s].url # <<>>
              /\ variant = "managed" => Truthy(bearer_token[s])
              /\ variant = "direct" => GEMINI_API_KEY # <<>>
        /\ upstream[s].st # "none" => connect[s].called
        /\ Spawned(s) => upstream[s].st # "none"

\* C16: a session moves through Handshaking, Authenticating, Connecting,
\* Relaying, Closing, Closed in this order, a failure goes to Closed at
\* once; generate_access_token is not called before the first message is
\* received; websockets.connect is not called before there is a token and
\* an endpoint; a Closed session sends nothing, connects to nothing and
\* does not change.
C16_PhasesInOrder == [][ForwardStep]_vars /\ []InOrder

\* a session is Closed after a relay in which a frame was written
C16_Witness ==
    /\ pc["s1"] = "closed"
    /\ Spawned("s1")
    /\ wrote["s1"]["c2s"] # <<>>
    /\ tokenCalls["s1"] = 1

(***************************************************************************)
(* C17 - C20: failures inside the relay                                    *)
(***************************************************************************)
\* the loop handed the frame that comes from m to send, and send failed:
\* m was received, it gives a frame to send, and nothing was written
FailedWrite(s, d, m) == Outgoing(d, m) # Raise /\ m.id \notin Ids(wrote[s][d])

\* C17: after a write to the destination has failed, the loop receives no
\* further message from its source.
C17_Claim ==
    \A s \in Sessions : \A d \in Dirs :
        \A i \in 1..Len(recvd[s][d]) :
            FailedWrite(s, d, recvd[s][d][i]) => i = Len(recvd[s][d])

\* the tasks the session has called cancel() on
CancelledBySession(s) == {d \in Dirs : task[s][d].cancelReq \/ task[s][d].cancelled}
\* asyncio.wait has returned
PastWait(s) == Spawned(s) /\ pc[s] \notin {"wait"}

\* C18: in a session that has relayed, once the session has seen the first
\* completion exactly one of the two tasks is cancelled by the session, and
\* the other one has terminated by itself.
C18_Claim ==
    \A s \in Sessions :
        PastWait(s) =>
            /\ Cardinality(CancelledBySession(s)) = 1
            /\ \A d \in Dirs \ CancelledBySession(s) : task[s][d].st = "done"

\* C18 as amended: the session cancels the tasks that are pending when it
\* sees the first completion: one task at most, none when both loops have
\* ended by then; no task is cancelled while the session waits; a task
\* that is not cancelled has terminated by itself.
C18_Amended ==
    \A s \in Sessions :
        /\ Cardinality(CancelledBySession(s)) <= 1
        /\ pc[s] = "wait" => CancelledBySession(s) = {}
        /\ pc[s] = "await_task" => Cardinality(CancelledBySession(s)) = 1
        /\ PastWait(s) => \A d \in Dirs \ CancelledBySession(s) : task[s][d].st = "done"

\* both loops had ended when the session looked: it goes on to close the
\* connections and has cancelled nothing
C18_Witness ==
    /\ pc["s1"] = "close_server"
    /\ TasksDone("s1")
    /\ CancelledBySession("s1") = {}

\* C19: direct-key variant: a client message whose setup transformation
\* raises is written to the upstream as the client sent it.
C19_Claim ==
    variant = "direct" =>
        \A s \in Sessions : \A m \in Received(s, "c2s") :
            (m.json /\ transform_setup_message(m.val) = Raise /\ upstream[s].st = "open") =>
                \E w \in Written(s, "c2s") : w.id = m.id /\ w.val = m.val

\* the frames received in direction d after a text that is no JSON
AfterUnparseable(s, d) ==
    { recvd[s][d][j] : j \in { j \in 1..Len(recvd[s][d]) :
                                 \E i \in 1..(j - 1) : ~recvd[s][d][i].json } }

\* a turn of a loop leaves the session and its tasks where they are
LoopTurnKeepsRelaying ==
    \A s \in Sessions :
        recvd[s]' # recvd[s] =>
            /\ pc[s]' = pc[s]
            /\ task[s]' = task[s]
            /\ client[s]' = client[s]
            /\ upstream[s]' = upstream[s]

\* C20: a received text that is no JSON is not written to the destination;
\* the loop goes on: the messages received after it are written when they
\* give a frame to send and the destination is open; and the turn of the
\* loop on a message, whatever the message, changes neither the phase of the
\* session nor its tasks.
C20_UnparseableSkipped ==
    /\ [](\A s \in Sessions : \A d \in Dirs :
            /\ \A m \in Received(s, d) : ~m.json => m.id \notin Ids(wrote[s][d])
            /\ \A m \in AfterUnparseable(s, d) :
                  (Outgoing(d, m) # Raise /\ DestConn(s, d).st = "open")
                      => m.id \in Ids(wrote[s][d]))
    /\ [][LoopTurnKeepsRelaying]_vars

\* the client sent a text that is no JSON and then a message that went out
C20_Witness ==
    /\ Relaying("s1")
    /\ Len(recvd["s1"]["c2s"]) = 2
    /\ ~recvd["s1"]["c2s"][1].json
    /\ recvd["s1"]["c2s"][2].id \in Ids(wrote["s1"]["c2s"])

(***************************************************************************)
(* C21: a setup section without a model                                    *)
(***************************************************************************)
NoModelProbe == SetupProbe /\ "model" \notin DOMAIN SentSetup

\* C21: direct-key variant: a client message whose setup section has no
\* model field is forwarded with every member as the client sent it,
\* setup.proactivity and setup.generation_config.enable_affective_dialog
\* included.
C21_Claim ==
    (NoModelProbe /\ Transformed) => (Forwarded /\ probe.out.val = probe.message.val)

\* C21 as amended: such a message is forwarded without a model field, and
\* without setup.proactivity and
\* setup.generation_config.enable_affective_dialog; every other member is as
\* the client sent it.
C21_Amended ==
    (NoModelProbe /\ Transformed) =>
        /\ Forwarded
        /\ SameApartFrom(probe.message.val, probe.out.val, {"setup"})
        /\ "setup" \in DOMAIN probe.out.val.f
        /\ "model" \notin DOMAIN ForwardedSetup
        /\ "proactivity" \notin DOMAIN ForwardedSetup
        /\ SameApartFrom(JObj(SentSetup), JObj(ForwardedSetup),
                         {"proactivity", "generation_config"})
        /\ ("generation_config" \in DOMAIN SentSetup)
              = ("generation_config" \in DOMAIN ForwardedSetup)
        /\ "generation_config" \in DOMAIN SentSetup =>
              /\ "enable_affective_dialog" \notin DOMAIN ForwardedSetup["generation_config"].f
              /\ SameApartFrom(SentSetup["generation_config"],
                               ForwardedSetup["generation_config"],
                               {"enable_affective_dialog"})

\* a setup section without a model went out without its proactivity
C21_Witness ==
    /\ NoModelProbe
    /\ "proactivity" \in DOMAIN SentSetup
    /\ Forwarded
    /\ "proactivity" \notin DOMAIN ForwardedSetup
    /\ probe.out.val # probe.message.val

(***************************************************************************)
(* C22: the first message stays with the handler                           *)
(***************************************************************************)
\* C22: the first message of the client is taken by the handler and is
\* neither received by the client-to-server loop nor written to the
\* upstream: the loop starts with the second message of the client, and
\* that one is the first the upstream gets, unless it gives no frame to
\* send (it is no JSON, or its setup transformation raises).
C22_HandshakeNotForwarded ==
    \A s \in Sessions :
        LET r == recvd[s]["c2s"]
            w == wrote[s]["c2s"]
        IN /\ handshake[s].id \in {0, 1}
           /\ \A m \in Received(s, "c2s") \cup Written(s, "c2s") : m.id >= 2
           /\ r # <<>> => (handshake[s].id = 1 /\ r[1].id = 2)
           /\ w # <<>> => (w[1].id = 2 \/ Outgoing("c2s", r[1]) = Raise)

\* the upstream got the second message of the client and nothing before it
C22_Witness ==
    /\ handshake["s1"].id = 1
    /\ handshake["s1"].val = Object2("bearer_token", ClientToken, "service_url", ServiceUrl1)
    /\ wrote["s1"]["c2s"] # <<>>
    /\ wrote["s1"]["c2s"][1].id = 2
    /\ wrote["s1"]["c2s"][1].val # handshake["s1"].val

(***************************************************************************)
(* C23: the tasks of a session                                             *)
(***************************************************************************)
\* a session has no task or both, no task without an upstream connection,
\* no task that runs on when the handler has returned; the destination of a
\* task that is in its finally block or done is closed
TasksWithinSession ==
    \A s \in Sessions :
        /\ {d \in Dirs : task[s][d].st # "none"} \in {{}, Dirs}
        /\ pc[s] \in {"idle", "handshake", "connecting"} => ~Spawned(s)
        /\ Spawned(s) => (connect[s].called /\ upstream[s].st # "none")
        /\ pc[s] = "closed" => \A d \in Dirs : task[s][d].st \in {"none", "done"}
        /\ \A d \in Dirs : task[s][d].st \in {"closing", "done"} => DestConn(s, d).st = "closed"

\* a task leaves its loop, cancelled or not, into its finally block, where
\* it closes its destination, and ends from there only
TaskEndsThroughFinally ==
    \A s \in Sessions : \A d \in Dirs :
        /\ (task[s][d].st = "recv" /\ task[s][d].st' # "recv") =>
              (task[s][d].st' = "closing" /\ DestConn(s, d).st' = "closed")
        /\ (task[s][d].st # "done" /\ task[s][d].st' = "done") => task[s][d].st = "closing"

\* C23: a session has no forwarding task or one per direction; tasks exist
\* only once the upstream connection is established; when the handler has
\* returned both tasks have terminated; and a task, cancelled or not, closes
\* its destination before it terminates.
C23_TasksBoundToSession == []TasksWithinSession /\ [][TaskEndsThroughFinally]_vars

\* the handler has returned after a relay that the upstream ended; the
\* server-to-client task had closed the client when it was cancelled
C23_Witness ==
    /\ pc["s1"] = "closed"
    /\ TasksDone("s1")
    /\ task["s1"]["s2c"].cancelled
    /\ client["s1"].by = "proxy"
    /\ upstream["s1"].by = "peer"

(***************************************************************************)
(* C24: an empty model, and the prefix of every model                      *)
(***************************************************************************)
\* C24: direct-key variant: a setup message whose model field is null or
\* the empty str is forwarded with the model "models/" followed by
\* DEFAULT_MODEL; a setup message whose model field is a str is forwarded
\* with a model that starts with "models/".
C24_ModelAlwaysPrefixed ==
    (SetupProbe /\ "model" \in DOMAIN SentSetup /\ Transformed) =>
        /\ SentSetup["model"] \in {JNull, JStr(<<>>)} =>
              /\ Forwarded
              /\ ForwardedSetup["model"] = JStr(ModelsPrefix \o DEFAULT_MODEL)
        /\ SentSetup["model"].t = "str" =>
              /\ Forwarded
              /\ ForwardedSetup["model"].t = "str"
              /\ StartsWith(ForwardedSetup["model"].s, ModelsPrefix)

\* a null model went out as a default that is not the built-in one
C24_Witness ==
    /\ SetupProbe
    /\ "model" \in DOMAIN SentSetup
    /\ SentSetup["model"] = JNull
    /\ DEFAULT_MODEL = Flash20Exp
    /\ Forwarded
    /\ ForwardedSetup["model"] = JStr(ModelsPrefix \o Flash20Exp)

====
